---- MODULE Spec2Model ----
(***************************************************************************)
(* A model of the Python terminal's command dispatch pipeline:             *)
(* CommandRegistry, SimpleNLPProcessor, CommandProcessor, HistoryManager   *)
(* and TerminalCore.  Texts are TLA+ strings; the string functions of the  *)
(* Python runtime the code relies on (strip, lower, split, replace,        *)
(* shlex.split, re.match) are operators that compute what they compute.    *)
(***************************************************************************)
EXTENDS Integers, Sequences, FiniteSets, TLC

VARIABLES
    commands,       \* CommandRegistry.commands: name -> handler
    aliases,        \* CommandRegistry.aliases: alias -> name
    registrations,  \* the register calls made so far (name, handler, aliases)
    nlp_enabled,    \* CommandProcessor.nlp_processor is not None
    history,        \* HistoryManager.history: sequence of CommandHistoryEntry
    max_history,    \* HistoryManager.max_history
    history_file,   \* lines of the persisted history file
    context,        \* ExecutionContext: current_directory, history
    cwd,            \* the working directory of the operating-system process
    dirs,           \* directories that exist in the filesystem
    files,          \* regular files that exist in the filesystem
    result,         \* what the last call handed back to its caller
    trace,          \* registry lookups and handler calls made by the last call
    input,          \* the text given to the last call
    ncalls,         \* the number of calls made so far
    client,         \* the web client whose request the last call served
    threads         \* where each request thread stands inside add_command

vars == <<commands, aliases, registrations, nlp_enabled, history, max_history,
          history_file, context, cwd, dirs, files, result, trace, input, ncalls,
          client, threads>>

(***************************************************************************)
(* Python string primitives.                                               *)
(***************************************************************************)
None == "<None>"

\* characters str.strip() and str.split() treat as whitespace
PyWhitespace == {" ", "\t", "\n", "\r", "\f"}

CharAt(s, i) == SubSeq(s, i, i)

HasAt(s, p, i) == i + Len(p) - 1 <= Len(s) /\ SubSeq(s, i, i + Len(p) - 1) = p

StartsWith(s, p) == HasAt(s, p, 1)

\* p in s
Contains(s, p) == \E i \in 1..(Len(s) + 1) : HasAt(s, p, i)

RECURSIVE LStrip(_)
LStrip(s) ==
    IF s # "" /\ CharAt(s, 1) \in PyWhitespace THEN LStrip(Tail(s)) ELSE s

RECURSIVE RStrip(_)
RStrip(s) ==
    IF s # "" /\ CharAt(s, Len(s)) \in PyWhitespace
    THEN RStrip(SubSeq(s, 1, Len(s) - 1))
    ELSE s

Strip(s) == LStrip(RStrip(s))

UpperChars == <<"A", "B", "C", "D", "E", "F", "G", "H", "I", "J", "K", "L", "M",
                "N", "O", "P", "Q", "R", "S", "T", "U", "V", "W", "X", "Y", "Z">>
LowerChars == <<"a", "b", "c", "d", "e", "f", "g", "h", "i", "j", "k", "l", "m",
                "n", "o", "p", "q", "r", "s", "t", "u", "v", "w", "x", "y", "z">>

LowerChar(c) ==
    IF \E k \in 1..Len(UpperChars) : UpperChars[k] = c
    THEN LowerChars[CHOOSE k \in 1..Len(UpperChars) : UpperChars[k] = c]
    ELSE c

RECURSIVE Lower(_)
Lower(s) == IF s = "" THEN "" ELSE LowerChar(CharAt(s, 1)) \o Lower(Tail(s))

\* s.replace(old, new): every non-overlapping occurrence, left to right
RECURSIVE Replace(_, _, _)
Replace(s, old, new) ==
    IF s = "" THEN ""
    ELSE IF HasAt(s, old, 1)
         THEN new \o Replace(SubSeq(s, Len(old) + 1, Len(s)), old, new)
         ELSE CharAt(s, 1) \o Replace(Tail(s), old, new)

\* s.split(): the maximal runs of non-whitespace characters
RECURSIVE SplitFrom(_, _, _)
SplitFrom(s, tok, out) ==
    IF s = "" THEN (IF tok = "" THEN out ELSE Append(out, tok))
    ELSE IF CharAt(s, 1) \in PyWhitespace
         THEN SplitFrom(Tail(s), "", IF tok = "" THEN out ELSE Append(out, tok))
         ELSE SplitFrom(Tail(s), tok \o CharAt(s, 1), out)

Split(s) == SplitFrom(s, "", <<>>)

\* " ".join(seq)
RECURSIVE Join(_)
Join(seq) ==
    IF seq = <<>> THEN ""
    ELSE IF Len(seq) = 1 THEN seq[1]
    ELSE seq[1] \o " " \o Join(Tail(seq))

\* "\n".join(seq)
RECURSIVE JoinLines(_)
JoinLines(seq) ==
    IF seq = <<>> THEN ""
    ELSE IF Len(seq) = 1 THEN seq[1]
    ELSE seq[1] \o "\n" \o JoinLines(Tail(seq))

(***************************************************************************)
(* shlex.split(s) in POSIX mode, whitespace_split on, comments off: the    *)
(* token reader's state machine.  st is the reader's state (" " between    *)
(* tokens, "a" inside a word, a quote character inside quotes, the escape  *)
(* character after a backslash), esc the state an escape returns to.       *)
(***************************************************************************)
\* shlex.split either returns a token list or raises ValueError
ShlexTokens(toks) == [raised |-> FALSE, tokens |-> toks]
ShlexValueError == [raised |-> TRUE, tokens |-> <<>>]

ShlexWhitespace == {" ", "\t", "\r", "\n"}
ShlexQuotes == {"'", "\""}
ShlexEscape == "\\"
ShlexEscapedQuotes == {"\""}

RECURSIVE ShlexRead(_, _, _, _, _, _)
ShlexRead(s, st, esc, tok, quoted, out) ==
    IF s = ""
    THEN IF st \in ShlexQuotes \/ st = ShlexEscape
         THEN ShlexValueError  \* No closing quotation / No escaped character
         ELSE ShlexTokens(IF tok # "" \/ quoted THEN Append(out, tok) ELSE out)
    ELSE LET c == CharAt(s, 1)
             r == Tail(s)
         IN  IF st = " "
             THEN IF c \in ShlexWhitespace THEN ShlexRead(r, " ", esc, "", FALSE, out)
                  ELSE IF c = ShlexEscape THEN ShlexRead(r, c, "a", "", FALSE, out)
                  ELSE IF c \in ShlexQuotes THEN ShlexRead(r, c, esc, "", FALSE, out)
                  ELSE ShlexRead(r, "a", esc, c, FALSE, out)
             ELSE IF st \in ShlexQuotes
             THEN IF c = st THEN ShlexRead(r, "a", esc, tok, TRUE, out)
                  ELSE IF c = ShlexEscape /\ st \in ShlexEscapedQuotes
                       THEN ShlexRead(r, c, st, tok, TRUE, out)
                  ELSE ShlexRead(r, st, esc, tok \o c, TRUE, out)
             ELSE IF st = ShlexEscape
             THEN IF esc \in ShlexQuotes /\ c # st /\ c # esc
                  THEN ShlexRead(r, esc, esc, tok \o st \o c, quoted, out)
                  ELSE ShlexRead(r, esc, esc, tok \o c, quoted, out)
             ELSE \* st = "a"
                  IF c \in ShlexWhitespace
                  THEN ShlexRead(r, " ", esc, "", FALSE,
                                 IF tok # "" \/ quoted THEN Append(out, tok) ELSE out)
                  ELSE IF c \in ShlexQuotes THEN ShlexRead(r, c, esc, tok, quoted, out)
                  ELSE IF c = ShlexEscape THEN ShlexRead(r, c, "a", tok, quoted, out)
                  ELSE ShlexRead(r, "a", esc, tok \o c, quoted, out)

ShlexSplit(s) == ShlexRead(s, " ", "a", "", FALSE, <<>>)

\* The outcome of a call: a returned value, or an exception that leaves it
Returned(v) == [raised |-> FALSE, value |-> v]
Raised(kind) == [raised |-> TRUE, value |-> kind]

\* _parse_command without its except clause
ParseCommandNoFallback(input_text) ==
    LET parts == ShlexSplit(Strip(input_text))
    IN  IF parts.raised THEN Raised("ValueError") ELSE Returned(parts.tokens)

\* CommandProcessor._parse_command
ParseCommand(input_text) ==
    LET parts == ShlexSplit(Strip(input_text))
    IN  IF parts.raised THEN Returned(Split(Strip(input_text)))
        ELSE Returned(parts.tokens)

(***************************************************************************)
(* re.match(pattern, text): a backtracking matcher anchored at the start   *)
(* of the text (the end is not anchored).  A pattern is a sequence of      *)
(* nodes: a literal, an ordered alternation of sub-patterns (an optional   *)
(* group is an alternation whose last branch is empty), the greedy capture *)
(* (.+) and the greedy capture (\d+).  Branches are tried left to right    *)
(* and captures longest first, as the re module does.                      *)
(***************************************************************************)
Lit(str) == [k |-> "lit", s |-> str, alts |-> <<>>]
Alt(branches) == [k |-> "alt", s |-> "", alts |-> branches]
Opt(str) == Alt(<< <<Lit(str)>>, <<>> >>)
Either(a, b) == Alt(<< <<Lit(a)>>, <<Lit(b)>> >>)
Either3(a, b, c) == Alt(<< <<Lit(a)>>, <<Lit(b)>>, <<Lit(c)>> >>)
OptEither(a, b) == Alt(<< <<Lit(a)>>, <<Lit(b)>>, <<>> >>)
OptSeq(pat) == Alt(<< pat, <<>> >>)
AnyGroup == [k |-> "any", s |-> "", alts |-> <<>>]
DigitGroup == [k |-> "dig", s |-> "", alts |-> <<>>]

Digits == {"0", "1", "2", "3", "4", "5", "6", "7", "8", "9"}

NoMatch == [ok |-> FALSE, groups |-> <<>>]

\* the length of the longest prefix of s a capture of kind k can take
RECURSIVE MaxRun(_, _)
MaxRun(s, k) ==
    IF s = "" THEN 0
    ELSE IF (k = "any" /\ CharAt(s, 1) # "\n") \/ (k = "dig" /\ CharAt(s, 1) \in Digits)
         THEN 1 + MaxRun(Tail(s), k)
         ELSE 0

RECURSIVE Match(_, _, _)
RECURSIVE MatchAlt(_, _, _, _)
RECURSIVE MatchGroup(_, _, _, _)

Match(pat, s, groups) ==
    IF pat = <<>> THEN [ok |-> TRUE, groups |-> groups]
    ELSE LET n == Head(pat)
         IN  IF n.k = "lit"
             THEN IF StartsWith(s, n.s)
                  THEN Match(Tail(pat), SubSeq(s, Len(n.s) + 1, Len(s)), groups)
                  ELSE NoMatch
             ELSE IF n.k = "alt"
             THEN MatchAlt(n.alts, Tail(pat), s, groups)
             ELSE MatchGroup(Tail(pat), s, groups, MaxRun(s, n.k))

MatchAlt(branches, rest, s, groups) ==
    IF branches = <<>> THEN NoMatch
    ELSE LET r == Match(Head(branches) \o rest, s, groups)
         IN  IF r.ok THEN r ELSE MatchAlt(Tail(branches), rest, s, groups)

MatchGroup(rest, s, groups, len) ==
    IF len < 1 THEN NoMatch
    ELSE LET r == Match(rest, SubSeq(s, len + 1, Len(s)),
                        Append(groups, SubSeq(s, 1, len)))
         IN  IF r.ok THEN r ELSE MatchGroup(rest, s, groups, len - 1)

ReMatch(pattern, text) == Match(pattern, text, <<>>)

(***************************************************************************)
(* SimpleNLPProcessor.patterns: the ordered rule catalogue.                *)
(***************************************************************************)
Rule(pat, tmpl) == [pattern |-> pat, template |-> tmpl]

FolderOrDirectory == Either("folder", "directory")
FolderDirectoryLocation == Either3("folder", "directory", "location")
CalledOrNamed == OptEither("called ", "named ")
InCurrentFolder ==
    OptSeq(<<Lit(" in "), Opt("the "), Opt("current "), FolderOrDirectory>>)
WhatIs == Either("what's", "what is")

patterns == <<
    \* Directory operations
    Rule(<<Lit("create "), Opt("a "), Opt("new "), FolderOrDirectory, Lit(" "),
           CalledOrNamed, AnyGroup>>, "mkdir \\1"),
    Rule(<<Lit("make "), Opt("a "), Opt("new "), FolderOrDirectory, Lit(" "),
           CalledOrNamed, AnyGroup>>, "mkdir \\1"),
    Rule(<<Lit("go to "), Opt("the "), FolderOrDirectory, Lit(" "), AnyGroup>>,
         "cd \\1"),
    Rule(<<Lit("change to "), Opt("the "), FolderOrDirectory, Lit(" "), AnyGroup>>,
         "cd \\1"),
    Rule(<<Lit("navigate to "), AnyGroup>>, "cd \\1"),
    \* File operations
    Rule(<<Lit("show "), Opt("me "), Opt("the "), Lit("content"), Opt("s"),
           Lit(" of "), Opt("the "), Lit("file "), AnyGroup>>, "cat \\1"),
    Rule(<<Lit("display "), Opt("the "), Lit("file "), AnyGroup>>, "cat \\1"),
    Rule(<<Lit("read "), Opt("the "), Lit("file "), AnyGroup>>, "cat \\1"),
    Rule(<<Lit("copy "), Opt("the "), Lit("file "), AnyGroup, Lit(" to "),
           AnyGroup>>, "cp \\1 \\2"),
    Rule(<<Lit("move "), Opt("the "), Lit("file "), AnyGroup, Lit(" "),
           Either("to", "into"), Lit(" "), AnyGroup>>, "mv \\1 \\2"),
    Rule(<<Lit("rename "), Opt("the "), Lit("file "), AnyGroup, Lit(" to "),
           AnyGroup>>, "mv \\1 \\2"),
    Rule(<<Lit("delete "), Opt("the "), Lit("file "), AnyGroup>>, "rm \\1"),
    Rule(<<Lit("remove "), Opt("the "), Lit("file "), AnyGroup>>, "rm \\1"),
    \* Listing operations
    Rule(<<Lit("show "), Opt("me "), Opt("all "), Opt("the "), Lit("file"),
           Opt("s"), InCurrentFolder>>, "ls"),
    Rule(<<Lit("list "), Opt("all "), Opt("the "), Lit("file"), Opt("s"),
           InCurrentFolder>>, "ls"),
    Rule(<<WhatIs, Lit(" in "), Either("this", "the current"), Lit(" "),
           FolderOrDirectory>>, "ls"),
    Rule(<<Lit("show "), Opt("me "), Opt("the "), Lit("files in "), AnyGroup>>,
         "ls \\1"),
    Rule(<<Lit("list "), Opt("the "), Lit("files in "), AnyGroup>>, "ls \\1"),
    \* Location operations
    Rule(<<Lit("where am i"), Opt("?")>>, "pwd"),
    Rule(<<WhatIs, Lit(" "), Opt("my "), Lit("current "), FolderDirectoryLocation,
           Opt("?")>>, "pwd"),
    Rule(<<Lit("show "), Opt("me "), Opt("my "), Lit("current "),
           FolderDirectoryLocation>>, "pwd"),
    \* Search operations
    Rule(<<Lit("find "), Opt("all "), Lit("file"), Opt("s"), Lit(" "),
           CalledOrNamed, AnyGroup>>, "find . -name \\1"),
    Rule(<<Lit("search for "), OptSeq(<<Lit("file"), Opt("s"), Lit(" ")>>),
           CalledOrNamed, AnyGroup>>, "find . -name \\1"),
    Rule(<<Lit("look for "), AnyGroup, Lit(" in "), Opt("the "), Lit("file "),
           AnyGroup>>, "grep \\1 \\2"),
    Rule(<<Lit("search for "), AnyGroup, Lit(" in "), Opt("the "), Lit("file "),
           AnyGroup>>, "grep \\1 \\2"),
    \* System operations
    Rule(<<Lit("show "), Opt("me "), Opt("all "), Opt("running "),
           Lit("processes")>>, "ps"),
    Rule(<<Lit("list "), Opt("all "), Opt("running "), Lit("processes")>>, "ps"),
    Rule(<<Lit("what processes are running"), Opt("?")>>, "ps"),
    Rule(<<Lit("show "), Opt("me "), Lit("system "),
           Either3("info", "information", "resources")>>, "top"),
    Rule(<<Lit("kill "), Opt("the "), Lit("process "), DigitGroup>>, "kill \\1"),
    Rule(<<Lit("terminate "), Opt("the "), Lit("process "), DigitGroup>>,
         "kill \\1"),
    \* Help operations
    Rule(<<Lit("help"), Opt(" me")>>, "help"),
    Rule(<<Lit("what can "), Either("i", "you"), Lit(" do"), Opt("?")>>, "help"),
    Rule(<<Lit("show "), Opt("me "), Opt("available "), Lit("commands")>>, "help"),
    \* Echo operations
    Rule(<<Lit("say "), AnyGroup>>, "echo \\1"),
    Rule(<<Lit("print "), AnyGroup>>, "echo \\1")
>>

DigitChars == <<"1", "2", "3", "4", "5", "6", "7", "8", "9">>

\* the loop over match.groups(): command.replace(f'\\{i}', group.strip())
RECURSIVE SubstituteGroups(_, _, _)
SubstituteGroups(command, groups, i) ==
    IF i > Len(groups) THEN command
    ELSE SubstituteGroups(Replace(command, "\\" \o DigitChars[i], Strip(groups[i])),
                          groups, i + 1)

\* the for loop of process_natural_language, from rule i on
RECURSIVE TryPatterns(_, _)
TryPatterns(query, i) ==
    IF i > Len(patterns) THEN None
    ELSE LET m == ReMatch(patterns[i].pattern, query)
         IN  IF m.ok THEN SubstituteGroups(patterns[i].template, m.groups, 1)
             ELSE TryPatterns(query, i + 1)

\* SimpleNLPProcessor.process_natural_language
ProcessNaturalLanguage(query) == TryPatterns(Lower(Strip(query)), 1)

QuestionWords == <<"what", "where", "how", "why", "when", "who", "which">>
NlPhrases == <<"show me", "can you", "i want to", "please", "help me">>
CommonWords == <<"the", "a", "an", "to", "in", "of">>

\* SimpleNLPProcessor.is_natural_language
IsNaturalLanguage(text) ==
    LET t == Lower(Strip(text))
    IN  \/ \E k \in 1..Len(QuestionWords) : StartsWith(t, QuestionWords[k])
        \/ \E k \in 1..Len(NlPhrases) : Contains(t, NlPhrases[k])
        \/ /\ Contains(t, " ")
           /\ \E k \in 1..Len(CommonWords) : Contains(t, CommonWords[k])

(***************************************************************************)
(* CommandRegistry.                                                        *)
(***************************************************************************)
Registration(name, handler, als) == [name |-> name, handler |-> handler, aliases |-> als]

Range(seq) == {seq[k] : k \in 1..Len(seq)}

\* the register calls of _load_builtin_commands after its imports succeeded
FullRegistrations == <<
    Registration("ls", "ListCommand", <<>>),
    Registration("cd", "ChangeDirectoryCommand", <<>>),
    Registration("pwd", "PrintWorkingDirectoryCommand", <<>>),
    Registration("mkdir", "MakeDirectoryCommand", <<>>),
    Registration("rm", "RemoveCommand", <<>>),
    Registration("echo", "EchoCommand", <<>>),
    Registration("cat", "CatCommand", <<>>),
    Registration("grep", "GrepCommand", <<>>),
    Registration("find", "FindCommand", <<>>),
    Registration("wc", "WordCountCommand", <<>>),
    Registration("cp", "CopyCommand", <<>>),
    Registration("mv", "MoveCommand", <<>>),
    Registration("ps", "ProcessListCommand", <<>>),
    Registration("kill", "KillCommand", <<>>),
    Registration("top", "TopCommand", <<>>),
    Registration("df", "DiskUsageCommand", <<>>),
    Registration("free", "MemoryCommand", <<>>) >>

\* the register calls of _register_fallback_commands
FallbackRegistrations == <<
    Registration("help", "FallbackHelpCommand", <<>>),
    Registration("exit", "FallbackExitCommand", <<"quit">>) >>

\* register that keeps the handler a name already has
RegisterInKeepFirst(reg, name, handler, als) ==
    [commands |-> [n \in DOMAIN reg.commands \cup {name} |->
                      IF n \in DOMAIN reg.commands THEN reg.commands[n] ELSE handler],
     aliases  |-> [a \in DOMAIN reg.aliases \cup Range(als) |->
                      IF a \in Range(als) THEN name ELSE reg.aliases[a]]]

\* register(name, handler, aliases) applied to a registry [commands, aliases]
RegisterIn(reg, name, handler, als) ==
    [commands |-> [n \in DOMAIN reg.commands \cup {name} |->
                      IF n = name THEN handler ELSE reg.commands[n]],
     aliases  |-> [a \in DOMAIN reg.aliases \cup Range(als) |->
                      IF a \in Range(als) THEN name ELSE reg.aliases[a]]]

RECURSIVE RegisterAll(_, _)
RegisterAll(reg, regs) ==
    IF regs = <<>> THEN reg
    ELSE RegisterAll(RegisterIn(reg, regs[1].name, regs[1].handler, regs[1].aliases),
                     Tail(regs))

EmptyRegistry == [commands |-> <<>>, aliases |-> <<>>]

\* _load_builtin_commands: an ImportError leaves the fallback commands only
LoadBuiltinCommands(imports_ok) ==
    IF imports_ok THEN FullRegistrations \o FallbackRegistrations
    ELSE FallbackRegistrations

\* get_handler that looks the token up as a primary name first
GetHandlerNameFirst(command_name) ==
    IF command_name \in DOMAIN commands THEN Returned(commands[command_name])
    ELSE IF command_name \in DOMAIN aliases /\ aliases[command_name] \in DOMAIN commands
    THEN Returned(commands[aliases[command_name]])
    ELSE Raised("CommandNotFoundError")

\* CommandRegistry.get_handler
GetHandler(command_name) ==
    LET actual_name == IF command_name \in DOMAIN aliases
                       THEN aliases[command_name] ELSE command_name
    IN  IF actual_name \in DOMAIN commands THEN Returned(commands[actual_name])
        ELSE Raised("CommandNotFoundError")

\* command_exists that forgets the alias map
CommandExistsNameOnly(command_name) == command_name \in DOMAIN commands

\* CommandRegistry.command_exists
CommandExists(command_name) ==
    LET actual_name == IF command_name \in DOMAIN aliases
                       THEN aliases[command_name] ELSE command_name
    IN  actual_name \in DOMAIN commands

\* CommandRegistry.register
Register(name, handler, als) ==
    LET reg == RegisterIn([commands |-> commands, aliases |-> aliases],
                          name, handler, als)
    IN  /\ commands' = reg.commands
        /\ aliases' = reg.aliases
        /\ registrations' = Append(registrations, Registration(name, handler, als))

\* a < b as Python compares strings: by code point, a proper prefix first
RECURSIVE StrLess(_, _)
StrLess(a, b) ==
    LET order == "-.0123456789ABCDEFGHIJKLMNOPQRSTUVWXYZ_abcdefghijklmnopqrstuvwxyz"
        Ord(c) == CHOOSE i \in 1..Len(order) : CharAt(order, i) = c
    IN  IF b = "" THEN FALSE
        ELSE IF a = "" THEN TRUE
        ELSE IF CharAt(a, 1) = CharAt(b, 1) THEN StrLess(Tail(a), Tail(b))
        ELSE Ord(CharAt(a, 1)) < Ord(CharAt(b, 1))

\* every name and alias that is ever registered, in code point order,
\* evaluated once
SortedKnownNames ==
    LET builtin == FullRegistrations \o FallbackRegistrations
        known == UNION {{builtin[k].name} \cup {builtin[k].aliases[j] :
                                                    j \in 1..Len(builtin[k].aliases)} :
                        k \in 1..Len(builtin)}
                 \cup {"new", "x", "plug", "ll"}
        rank == [n \in known |-> Cardinality({m \in known : StrLess(m, n)})]
    IN  [i \in 1..Cardinality(known) |-> CHOOSE n \in known : rank[n] = i - 1]

\* sorted(names): the names in the order code points give them
SortNames(names) == SelectSeq(SortedKnownNames, LAMBDA n : n \in names)

\* CommandRegistry.list_commands
ListCommands == SortNames(DOMAIN commands)

\* suggest_commands that also offers the alias strings
SuggestCommandsWithAliases(partial_command) ==
    LET offered == DOMAIN commands \cup DOMAIN aliases
    IN  SortNames({cmd \in offered : StartsWith(cmd, partial_command)})

\* CommandProcessor.suggest_commands
SuggestCommands(partial_command) ==
    LET all_commands == ListCommands
        suggestions == SelectSeq(all_commands,
                                 LAMBDA cmd : StartsWith(cmd, partial_command))
    IN  SortNames({suggestions[k] : k \in 1..Len(suggestions)})

(***************************************************************************)
(* The filesystem the handlers act on.  A path is the sequence of its      *)
(* component names below the root; dirs and files hold the paths that      *)
(* exist.                                                                  *)
(***************************************************************************)
Root == <<>>
Home == <<"home">>          \* Path.home()
StartDir == <<"w">>         \* Path.cwd() when the terminal starts

\* the names a directory listing can show, in sorted order
FsNames == <<"d", "e", "f", "home", "logs", "w">>

InitialDirs == {Root, Home, StartDir, <<"w", "d">>}
InitialFiles == {<<"w", "f">>}

Parent(p) == IF p = Root THEN Root ELSE SubSeq(p, 1, Len(p) - 1)

IsPrefix(p, q) == Len(p) <= Len(q) /\ SubSeq(q, 1, Len(p)) = p

\* the components of a path string: split at "/", dropping "" and "."
RECURSIVE PathPartsFrom(_, _, _)
PathPartsFrom(s, part, out) ==
    LET keep == IF part = "" \/ part = "." THEN out ELSE Append(out, part)
    IN  IF s = "" THEN keep
        ELSE IF CharAt(s, 1) = "/" THEN PathPartsFrom(Tail(s), "", keep)
        ELSE PathPartsFrom(Tail(s), part \o CharAt(s, 1), out)

PathParts(s) == PathPartsFrom(s, "", <<>>)

\* Path(arg), made absolute against base when it is relative
AbsolutePath(arg, base) ==
    IF StartsWith(arg, "/") THEN PathParts(arg) ELSE base \o PathParts(arg)

\* str(path)
RECURSIVE PathStr(_)
PathStr(p) ==
    IF p = Root THEN "/"
    ELSE IF Len(p) = 1 THEN "/" \o p[1]
    ELSE PathStr(Parent(p)) \o "/" \o p[Len(p)]

\* Path.resolve(): ".." is folded lexically, the result need not exist
RECURSIVE ResolveFrom(_, _)
ResolveFrom(parts, cur) ==
    IF parts = <<>> THEN cur
    ELSE IF Head(parts) = ".." THEN ResolveFrom(Tail(parts), Parent(cur))
    ELSE ResolveFrom(Tail(parts), Append(cur, Head(parts)))

Resolve(parts) == ResolveFrom(parts, Root)

\* what the operating system finds at an unresolved path: every component
\* but the last has to be an existing directory
NotFound == [found |-> FALSE, path |-> Root]

RECURSIVE WalkFrom(_, _, _, _)
WalkFrom(parts, cur, ds, fs) ==
    IF parts = <<>>
    THEN IF cur \in ds \cup fs THEN [found |-> TRUE, path |-> cur] ELSE NotFound
    ELSE IF cur \notin ds THEN NotFound
    ELSE IF Head(parts) = ".." THEN WalkFrom(Tail(parts), Parent(cur), ds, fs)
    ELSE WalkFrom(Tail(parts), Append(cur, Head(parts)), ds, fs)

Walk(parts, ds, fs) == WalkFrom(parts, Root, ds, fs)

Exists(parts, ds, fs) == Walk(parts, ds, fs).found
IsDir(parts, ds, fs) == Walk(parts, ds, fs).found /\ Walk(parts, ds, fs).path \in ds
IsFile(parts, ds, fs) == Walk(parts, ds, fs).found /\ Walk(parts, ds, fs).path \in fs

\* the proper prefixes of p and p itself
Ancestors(p) == {SubSeq(p, 1, k) : k \in 0..Len(p)}

\* the entries of directory p as ls shows them, sorted by name
RECURSIVE ListingFrom(_, _, _, _)
ListingFrom(p, k, ds, fs) ==
    IF k > Len(FsNames) THEN <<>>
    ELSE LET child == Append(p, FsNames[k])
             item == IF child \in ds THEN <<FsNames[k] \o "/">>
                     ELSE IF child \in fs THEN <<FsNames[k]>>
                     ELSE <<>>
         IN  item \o ListingFrom(p, k + 1, ds, fs)

\* "  ".join(items)
RECURSIVE JoinWide(_)
JoinWide(items) ==
    IF items = <<>> THEN ""
    ELSE IF Len(items) = 1 THEN items[1]
    ELSE items[1] \o "  " \o JoinWide(Tail(items))

(***************************************************************************)
(* CommandResult and the handlers.  A handler call ends in an effect: the  *)
(* CommandResult it returns, or the exception that leaves it, together     *)
(* with the filesystem, process directory and context directory it leaves  *)
(* behind.  A handler yields the set of effects its environment allows.    *)
(***************************************************************************)
\* CommandResult(success, output, error_message=None, exit_code=0, execution_time=0.0)
CommandResult(success, output, error_message, exit_code, execution_time) ==
    [success |-> success, output |-> output, error_message |-> error_message,
     exit_code |-> exit_code, execution_time |-> execution_time]

\* CommandResult(success=True, output=...)
Success(output) == CommandResult(TRUE, output, None, 0, 0)

\* a failure result that carries no error message
FailureNoMessage(message) == CommandResult(FALSE, "", None, 0, 0)

\* CommandResult(success=False, output="", error_message=...) as the handlers
\* build it: exit_code keeps its default
Failure(message) == CommandResult(FALSE, "", message, 0, 0)

Effect(kind, res, ds, fs, wd, cd) ==
    [kind |-> kind, result |-> res, dirs |-> ds, files |-> fs, cwd |-> wd,
     current_directory |-> cd]

NoResult == CommandResult(FALSE, "", None, 0, 0)

\* the handler returns res and changes nothing
Returns(res) == Effect("return", res, dirs, files, cwd, context.current_directory)

\* the handler raises an Exception carrying message and changes nothing
Raises(message) ==
    Effect("raise", Failure(message), dirs, files, cwd, context.current_directory)

\* ListCommand.execute
ListCommand(args) ==
    LET target == IF args # <<>>
                  THEN AbsolutePath(args[1], context.current_directory)
                  ELSE context.current_directory
        at == Walk(target, dirs, files)
    IN  IF ~at.found
        THEN {Returns(Failure("ls: cannot access '" \o PathStr(target)
                              \o "': No such file or directory"))}
        ELSE IF at.path \in files
        THEN {Returns(Success(at.path[Len(at.path)]))}
        ELSE {Returns(Success(JoinWide(ListingFrom(at.path, 1, dirs, files))))}

\* cd that reports success without moving anywhere
ChangeDirectoryNoUpdate(args) == {Returns(Success(""))}

\* ChangeDirectoryCommand.execute
ChangeDirectoryCommand(args) ==
    LET target == Resolve(IF args = <<>> THEN Home
                          ELSE AbsolutePath(args[1], context.current_directory))
    IN  IF target \notin dirs \cup files
        THEN {Returns(Failure("cd: no such file or directory: " \o PathStr(target)))}
        ELSE IF target \notin dirs
        THEN {Returns(Failure("cd: not a directory: " \o PathStr(target)))}
        ELSE {Effect("return", Success(""), dirs, files, target, target)}

\* PrintWorkingDirectoryCommand.execute
PrintWorkingDirectoryCommand(args) ==
    {Returns(Success(PathStr(context.current_directory)))}

\* the loop of MakeDirectoryCommand.execute over the remaining names
RECURSIVE MakeDirectoryLoop(_, _)
MakeDirectoryLoop(names, ds) ==
    IF names = <<>>
    THEN Effect("return", Success(""), ds, files, cwd, context.current_directory)
    ELSE LET target == AbsolutePath(names[1], context.current_directory)
             made == Resolve(target)
         IN  IF Exists(target, ds, files)
             THEN Effect("return",
                         Failure("mkdir: cannot create directory '" \o names[1]
                                 \o "': File exists"),
                         ds, files, cwd, context.current_directory)
             ELSE IF Ancestors(made) \cap files # {}
             THEN Effect("return", Failure("mkdir: Not a directory"),
                         ds, files, cwd, context.current_directory)
             ELSE MakeDirectoryLoop(Tail(names), ds \cup Ancestors(made))

\* MakeDirectoryCommand.execute
MakeDirectoryCommand(args) ==
    IF args = <<>> THEN {Returns(Failure("mkdir: missing operand"))}
    ELSE {MakeDirectoryLoop(args, dirs)}

\* the loop of RemoveCommand.execute over the remaining names
RECURSIVE RemoveLoop(_, _)
RemoveLoop(names, fs) ==
    IF names = <<>>
    THEN Effect("return", Success(""), dirs, fs, cwd, context.current_directory)
    ELSE LET at == Walk(AbsolutePath(names[1], context.current_directory), dirs, fs)
         IN  IF ~at.found
             THEN Effect("return",
                         Failure("rm: cannot remove '" \o names[1]
                                 \o "': No such file or directory"),
                         dirs, fs, cwd, context.current_directory)
             ELSE IF at.path \in dirs
             THEN Effect("return",
                         Failure("rm: cannot remove '" \o names[1]
                                 \o "': Is a directory"),
                         dirs, fs, cwd, context.current_directory)
             ELSE RemoveLoop(Tail(names), fs \ {at.path})

\* RemoveCommand.execute
RemoveCommand(args) ==
    IF args = <<>> THEN {Returns(Failure("rm: missing operand"))}
    ELSE {RemoveLoop(args, files)}

\* EchoCommand.execute
EchoCommand(args) == {Returns(Success(Join(args)))}

\* the loop of CatCommand.execute over the remaining names
RECURSIVE CatLoop(_, _)
CatLoop(names, output_lines) ==
    IF names = <<>> THEN Success(JoinLines(output_lines))
    ELSE LET at == Walk(AbsolutePath(names[1], context.current_directory), dirs, files)
         IN  IF ~at.found
             THEN Failure("cat: " \o names[1] \o ": No such file or directory")
             ELSE IF at.path \in dirs
             THEN Failure("cat: " \o names[1] \o ": Is a directory")
             ELSE CatLoop(Tail(names),
                          Append(output_lines, "<" \o PathStr(at.path) \o ">"))

\* CatCommand.execute
CatCommand(args) ==
    IF args = <<>> THEN {Returns(Failure("cat: missing file operand"))}
    ELSE {Returns(CatLoop(args, <<>>))}

\* GrepCommand.execute: a bad pattern is found out when a line of an
\* existing file is searched
GrepCommand(args) ==
    IF Len(args) < 2 THEN {Returns(Failure("grep: usage: grep <pattern> <file>..."))}
    ELSE {Returns(Success("<grep>"))}
         \cup {Returns(Failure("grep: invalid pattern: <re.error>")) :
                 k \in {k \in 2..Len(args) :
                          IsFile(AbsolutePath(args[k], context.current_directory),
                                 dirs, files)}}

\* FindCommand.execute
FindCommand(args) ==
    LET search_path == IF args = <<>> THEN context.current_directory
                       ELSE AbsolutePath(args[1], context.current_directory)
    IN  IF ~Exists(search_path, dirs, files)
        THEN {Returns(Failure("find: '" \o PathStr(search_path)
                              \o "': No such file or directory"))}
        ELSE {Returns(Success("<find>"))}

\* WordCountCommand.execute
WordCountCommand(args) ==
    IF args = <<>> THEN {Returns(Failure("wc: missing file operand"))}
    ELSE {Returns(Success("<wc>"))}

\* CopyCommand.execute
CopyCommand(args) ==
    IF Len(args) < 2 THEN {Returns(Failure("cp: missing file operand"))}
    ELSE LET source == Walk(AbsolutePath(args[1], context.current_directory),
                            dirs, files)
             dest == AbsolutePath(args[2], context.current_directory)
             into == IF IsDir(dest, dirs, files)
                     THEN Append(Walk(dest, dirs, files).path,
                                 source.path[Len(source.path)])
                     ELSE Resolve(dest)
         IN  IF ~source.found
             THEN {Returns(Failure("cp: cannot stat '" \o args[1]
                                   \o "': No such file or directory"))}
             ELSE IF source.path \in dirs
             THEN {Returns(Failure("cp: omitting directory '" \o args[1] \o "'"))}
             ELSE IF into = source.path \/ into \in dirs \/ Parent(into) \notin dirs
             THEN {Returns(Failure("cp: <shutil error>"))}
             ELSE {Effect("return", Success(""), dirs, files \cup {into}, cwd,
                          context.current_directory)}

\* path p after the directory from was renamed to to
Moved(p, from, to) ==
    IF IsPrefix(from, p) THEN to \o SubSeq(p, Len(from) + 1, Len(p)) ELSE p

\* MoveCommand.execute
MoveCommand(args) ==
    IF Len(args) < 2 THEN {Returns(Failure("mv: missing file operand"))}
    ELSE LET source == Walk(AbsolutePath(args[1], context.current_directory),
                            dirs, files)
             dest == AbsolutePath(args[2], context.current_directory)
             into == IF IsDir(dest, dirs, files)
                     THEN Append(Walk(dest, dirs, files).path,
                                 source.path[Len(source.path)])
                     ELSE Resolve(dest)
         IN  IF ~source.found
             THEN {Returns(Failure("mv: cannot stat '" \o args[1]
                                   \o "': No such file or directory"))}
             ELSE IF \/ source.path = Root
                     \/ Parent(into) \notin dirs
                     \/ into \in dirs
                     \/ (source.path \in dirs /\ (into \in files \/ IsPrefix(source.path, into)))
             THEN {Returns(Failure("mv: <os error>"))}
             ELSE IF source.path \in files
             THEN {Effect("return", Success(""), dirs,
                          (files \ {source.path}) \cup {into}, cwd,
                          context.current_directory)}
             ELSE {Effect("return", Success(""),
                          {Moved(d, source.path, into) : d \in dirs},
                          {Moved(f, source.path, into) : f \in files},
                          Moved(cwd, source.path, into),
                          context.current_directory)}

\* ProcessListCommand, TopCommand, DiskUsageCommand, MemoryCommand: psutil
\* answers or raises
SystemCommand(name) ==
    {Returns(Success("<" \o name \o ">")), Returns(Failure(name \o ": <psutil error>"))}

\* int(text) succeeds: an optional sign and decimal digits
IsInt(text) ==
    LET body == IF text # "" /\ CharAt(text, 1) \in {"+", "-"} THEN Tail(text) ELSE text
    IN  body # "" /\ \A k \in 1..Len(body) : CharAt(body, k) \in Digits

\* KillCommand.execute
KillCommand(args) ==
    IF args = <<>> THEN {Returns(Failure("kill: missing process ID"))}
    ELSE IF ~IsInt(Strip(args[1])) THEN {Returns(Failure("kill: invalid process ID"))}
    ELSE {Returns(Failure("kill: no such process: " \o args[1])),
          Returns(Success("Process " \o args[1] \o " terminated")),
          Returns(Failure("kill: permission denied for process " \o args[1]))}

\* FallbackHelpCommand.execute
FallbackHelpCommand(args) ==
    IF args # <<>>
    THEN {Returns(Success(IF GetHandler(args[1]).raised
                          THEN "No help available for '" \o args[1] \o "'"
                          ELSE "<help of " \o GetHandler(args[1]).value \o ">"))}
    ELSE {Returns(Success("Available commands: <list_commands>"))}

\* FallbackExitCommand.execute: sys.exit(0) raises SystemExit
FallbackExitCommand(args) ==
    {Effect("exit", NoResult, dirs, files, cwd, context.current_directory)}

\* A handler registered by the embedding program: a BaseCommand subclass
\* that overrides validate_args and whose execute can raise.
Plugin(args) ==
    IF args # <<>> /\ args[1] = "boom" THEN {Raises("boom")}
    ELSE {Returns(Success("plugged"))}

PluginValidateArgs(args) ==
    IF args # <<>> /\ args[1] = "bad" THEN Returned(FALSE)
    ELSE IF args # <<>> /\ args[1] = "vboom" THEN Raised("vboom")
    ELSE Returned(TRUE)

\* a validate_args that wants at least one argument from every built-in
ValidateArgsNonEmpty(handler, args) ==
    IF handler = "Plugin" THEN PluginValidateArgs(args) ELSE Returned(args # <<>>)

\* handler.validate_args(args): BaseCommand's default unless overridden
ValidateArgs(handler, args) ==
    IF handler = "Plugin" THEN PluginValidateArgs(args) ELSE Returned(TRUE)

\* handler.execute(args, context), by the class of the handler
Execute(handler, args) ==
    CASE handler = "ListCommand" -> ListCommand(args)
      [] handler = "ChangeDirectoryCommand" -> ChangeDirectoryCommand(args)
      [] handler = "PrintWorkingDirectoryCommand" -> PrintWorkingDirectoryCommand(args)
      [] handler = "MakeDirectoryCommand" -> MakeDirectoryCommand(args)
      [] handler = "RemoveCommand" -> RemoveCommand(args)
      [] handler = "EchoCommand" -> EchoCommand(args)
      [] handler = "CatCommand" -> CatCommand(args)
      [] handler = "GrepCommand" -> GrepCommand(args)
      [] handler = "FindCommand" -> FindCommand(args)
      [] handler = "WordCountCommand" -> WordCountCommand(args)
      [] handler = "CopyCommand" -> CopyCommand(args)
      [] handler = "MoveCommand" -> MoveCommand(args)
      [] handler = "ProcessListCommand" -> SystemCommand("ps")
      [] handler = "KillCommand" -> KillCommand(args)
      [] handler = "TopCommand" -> SystemCommand("top")
      [] handler = "DiskUsageCommand" -> SystemCommand("df")
      [] handler = "MemoryCommand" -> SystemCommand("free")
      [] handler = "FallbackHelpCommand" -> FallbackHelpCommand(args)
      [] handler = "FallbackExitCommand" -> FallbackExitCommand(args)
      [] OTHER -> Plugin(args)

(***************************************************************************)
(* HistoryManager.                                                         *)
(***************************************************************************)
HistorySize == 1000         \* config default 'history_size'

CommandHistoryEntry(command, execution_time, success, working_directory) ==
    [command |-> command, execution_time |-> execution_time, success |-> success,
     working_directory |-> working_directory]

\* seq[-n:]
LastSlice(seq, n) ==
    IF n = 0 THEN seq
    ELSE IF n >= Len(seq) THEN seq
    ELSE SubSeq(seq, Len(seq) - n + 1, Len(seq))

\* add_command: append, then trim when the list exceeds max_history
AppendTrimmed(hist, entry, max) ==
    LET appended == Append(hist, entry)
    IN  IF Len(appended) > max THEN LastSlice(appended, max) ELSE appended

\* the history file: absent, or its text
NoFile == [exists |-> FALSE, text |-> ""]
FileWith(text) == [exists |-> TRUE, text |-> text]

\* _save_history: one line per entry
RECURSIVE SavedText(_)
SavedText(hist) ==
    IF hist = <<>> THEN "" ELSE hist[1].command \o "\n" \o SavedText(Tail(hist))

\* the lines of a text file as iterating over it yields them, newline removed
RECURSIVE LinesFrom(_, _, _)
LinesFrom(text, line, out) ==
    IF text = "" THEN (IF line = "" THEN out ELSE Append(out, line))
    ELSE IF CharAt(text, 1) \in {"\n", "\r"}
         THEN LinesFrom(Tail(text), "", Append(out, line))
         ELSE LinesFrom(Tail(text), line \o CharAt(text, 1), out)

\* the loop of _load_history over the remaining lines
RECURSIVE LoadLines(_, _, _)
LoadLines(lines, hist, wd) ==
    IF lines = <<>> THEN hist
    ELSE LET command == Strip(lines[1])
         IN  LoadLines(Tail(lines),
                       IF command # ""
                       THEN Append(hist, CommandHistoryEntry(command, 0, TRUE, wd))
                       ELSE hist,
                       wd)

\* HistoryManager._load_history
LoadHistory(file, wd) ==
    IF file.exists THEN LoadLines(LinesFrom(file.text, "", <<>>), <<>>, PathStr(wd))
    ELSE <<>>

\* HistoryManager.add_command(command): the entry carries the default
\* execution_time and success; the file is rewritten from the trimmed list
AddCommand(command) ==
    LET entry == CommandHistoryEntry(command, 0, TRUE, PathStr(cwd))
        kept == AppendTrimmed(history, entry, max_history)
    IN  /\ history' = kept
        /\ history_file' = FileWith(SavedText(kept))

(***************************************************************************)
(* CommandProcessor.process.                                               *)
(***************************************************************************)
MaxTick == 1                \* the longest a timed step takes, in clock ticks

\* what one call looked up and invoked
Trace(gate, translated, dispatched, lookups, validated, executed, t_nlp, t_rest) ==
    [gate |-> gate, translated |-> translated, dispatched |-> dispatched,
     lookups |-> lookups, validated |-> validated, executed |-> executed,
     t_nlp |-> t_nlp, t_rest |-> t_rest]

NoTrace == Trace(FALSE, FALSE, None, <<>>, <<>>, <<>>, 0, 0)

Call(handler, args) == [handler |-> handler, args |-> args]

\* the command lines the front end sends
CommandInputs == {
    "", "   ", "frobnicate", "ls", "ls nodir", "cd d", "cd f", "cd ..", "pwd",
    "mkdir", "mkdir logs", "rm", "rm f", "cat", "echo \"a b\" c", "echo \"a",
    "help cat", "exit", "quit", "ps", "kill", "plug", "plug bad", "plug boom",
    "plug vboom", "where am i?", "create a new folder called logs",
    "show me the files in d", "find . -name a", "list files", "whoami",
    "mv ../d ../e" }

\* is_natural_language and process_natural_language on the command lines of
\* the model, evaluated once
GateOf == [text \in CommandInputs |-> IsNaturalLanguage(text)]
TranslationOf == [text \in CommandInputs |-> ProcessNaturalLanguage(text)]

\* an NLP pre-pass that translates without asking the gate
ProcessedInputUngated(input_text) ==
    IF nlp_enabled
    THEN LET nlp_result == TranslationOf[input_text]
         IN  IF nlp_result # None /\ nlp_result # "" THEN nlp_result ELSE input_text
    ELSE input_text

\* an NLP pre-pass that drops the translation
ProcessedInputUntranslated(input_text) == input_text

\* the NLP pre-pass: the text that is parsed and dispatched
ProcessedInput(input_text) ==
    IF nlp_enabled /\ GateOf[input_text]
    THEN LET nlp_result == TranslationOf[input_text]
         IN  IF nlp_result # None /\ nlp_result # "" THEN nlp_result ELSE input_text
    ELSE input_text

\* the result process builds for a fault it caught
CaughtError(message, elapsed) ==
    CommandResult(FALSE, "", "Error executing command: " \o message, 1, elapsed)

\* process with the not-found result carrying the default exit code
NotFoundResultDefaultCode(command_name, elapsed) ==
    CommandResult(FALSE, "",
                  "Command '" \o command_name
                  \o "' not found. Type 'help' for available commands.",
                  0, elapsed)

NotFoundResult(command_name, elapsed) ==
    CommandResult(FALSE, "",
                  "Command '" \o command_name
                  \o "' not found. Type 'help' for available commands.",
                  127, elapsed)

\* the invalid-arguments result carrying the default exit code
InvalidArgumentsResultDefaultCode(command_name, elapsed) ==
    CommandResult(FALSE, "",
                  "Invalid arguments for '" \o command_name \o "'. Use 'help "
                  \o command_name \o "' for usage.",
                  0, elapsed)

InvalidArgumentsResult(command_name, elapsed) ==
    CommandResult(FALSE, "",
                  "Invalid arguments for '" \o command_name \o "'. Use 'help "
                  \o command_name \o "' for usage.",
                  1, elapsed)

\* the result of the empty-input branch with the default execution_time
EmptyInputResultZero(elapsed) == CommandResult(TRUE, "", None, 0, 0)

\* the result of the empty-input branch
EmptyInputResult(elapsed) == CommandResult(TRUE, "", None, 0, elapsed)

\* an effect of process that leaves filesystem and directories alone
Unchanged(res) == Effect("return", res, dirs, files, cwd, context.current_directory)

\* CommandProcessor.process(input_text, context): the set of its possible
\* effects, each with the trace of what it called.  t_nlp is the time the
\* gate and the translation took, t_rest the time of the later steps; the
\* timer starts before the gate.
Process(input_text, t_nlp, t_rest) ==
    LET elapsed == t_nlp + t_rest
        gate == nlp_enabled
        translated == nlp_enabled /\ GateOf[input_text]
        processed_input == ProcessedInput(input_text)
        parsed == ParseCommand(processed_input)
        parts == parsed.value
        command_name == parts[1]
        args == Tail(parts)
        handler == GetHandler(command_name)
        valid == ValidateArgs(handler.value, args)
        T(lookups, validated, executed) ==
            Trace(gate, translated, processed_input, lookups, validated, executed,
                  t_nlp, t_rest)
        here == Call(handler.value, args)
    IN  IF parsed.raised
        THEN {[effect |-> Unchanged(CaughtError(parsed.value, elapsed)),
               trace |-> T(<<>>, <<>>, <<>>)]}
        ELSE IF parts = <<>>
        THEN {[effect |-> Unchanged(EmptyInputResult(elapsed)),
               trace |-> T(<<>>, <<>>, <<>>)]}
        ELSE IF handler.raised
        THEN {[effect |-> Unchanged(NotFoundResult(command_name, elapsed)),
               trace |-> T(<<command_name>>, <<>>, <<>>)]}
        ELSE IF valid.raised
        THEN {[effect |-> Unchanged(CaughtError(valid.value, elapsed)),
               trace |-> T(<<command_name>>, <<here>>, <<>>)]}
        ELSE IF ~valid.value
        THEN {[effect |-> Unchanged(InvalidArgumentsResult(command_name, elapsed)),
               trace |-> T(<<command_name>>, <<here>>, <<>>)]}
        ELSE {[effect |->
                 IF e.kind = "return"
                 THEN [e EXCEPT !.result.execution_time = elapsed]
                 ELSE IF e.kind = "raise"
                 THEN [e EXCEPT !.kind = "return",
                                !.result = CaughtError(e.result.error_message, elapsed)]
                 ELSE e,
               trace |-> T(<<command_name>>, <<here>>, <<here>>)] :
              e \in Execute(handler.value, args)}

(***************************************************************************)
(* TerminalCore.                                                           *)
(***************************************************************************)
MaxCalls == 2               \* execute_command calls in one behaviour

ExecutionContext(current_directory, hist) ==
    [current_directory |-> current_directory, history |-> hist]

\* the result execute_command builds in its except clause
InternalError(message) == CommandResult(FALSE, "", "Internal error: " \o message, 1, 0)

\* TerminalCore.__init__ (with CommandRegistry, CommandProcessor and
\* HistoryManager constructed inside it)
\* the request threads of the web server
Threads == {"t1", "t2"}

\* a thread that is not inside add_command
Idle == [pc |-> "idle", command |-> None, sliced |-> <<>>]

Construct(imports_ok, nlp, size, file) ==
    LET reg == RegisterAll(EmptyRegistry, LoadBuiltinCommands(imports_ok))
    IN  /\ commands = reg.commands
        /\ aliases = reg.aliases
        /\ registrations = LoadBuiltinCommands(imports_ok)
        /\ nlp_enabled = nlp
        /\ max_history = size
        /\ history_file = file
        /\ history = LoadHistory(file, StartDir)
        /\ context = ExecutionContext(StartDir, <<>>)
        /\ cwd = StartDir
        /\ dirs = InitialDirs
        /\ files = InitialFiles
        /\ result = Returned(NoResult)
        /\ trace = NoTrace
        /\ ncalls = 0
        /\ client = None
        /\ threads = [t \in Threads |-> Idle]

Init ==
    /\ \E nlp \in BOOLEAN : Construct(TRUE, nlp, HistorySize, NoFile)
    /\ input = None

\* TerminalCore.execute_command(command_input)
ExecuteCommand(command_input) ==
    /\ ncalls < MaxCalls
    /\ ncalls' = ncalls + 1
    /\ input' = command_input
    /\ UNCHANGED <<commands, aliases, registrations, nlp_enabled, max_history>>
    /\ IF cwd \notin dirs
       THEN \* Path.cwd() raises inside add_command
            /\ result' = Returned(InternalError("<FileNotFoundError>"))
            /\ trace' = NoTrace
            /\ UNCHANGED <<history, history_file, context, cwd, dirs, files>>
       ELSE /\ AddCommand(command_input)
            /\ \E t_nlp \in (IF nlp_enabled THEN 0..MaxTick ELSE {0}),
                  t_rest \in 0..MaxTick :
                 \E p \in Process(command_input, t_nlp, t_rest) :
                    /\ context' = ExecutionContext(p.effect.current_directory,
                                                   Append(context.history, command_input))
                    /\ cwd' = p.effect.cwd
                    /\ dirs' = p.effect.dirs
                    /\ files' = p.effect.files
                    /\ trace' = p.trace
                    /\ result' = IF p.effect.kind = "exit" THEN Raised("SystemExit")
                                 ELSE Returned(p.effect.result)

\* the embedding program registers its own handler before the first command
RegisterPlugin ==
    /\ ncalls = 0
    /\ "plug" \notin DOMAIN commands
    /\ Register("plug", "Plugin", <<"pl">>)
    /\ UNCHANGED <<nlp_enabled, history, max_history, history_file, context, cwd,
                   dirs, files, result, trace, input, ncalls, client, threads>>

\* another process removes the (empty) directory the terminal runs in
RemoveWorkingDirectory ==
    /\ ncalls < MaxCalls
    /\ cwd # Root
    /\ cwd \in dirs
    /\ \A p \in dirs \cup files : IsPrefix(cwd, p) => p = cwd
    /\ dirs' = dirs \ {cwd}
    /\ UNCHANGED <<commands, aliases, registrations, nlp_enabled, history,
                   max_history, history_file, context, cwd, files, result, trace,
                   input, ncalls, client, threads>>

Next ==
    \/ \E text \in CommandInputs : ExecuteCommand(text) /\ UNCHANGED <<client, threads>>
    \/ RegisterPlugin
    \/ RemoveWorkingDirectory

Spec == Init /\ [][Next]_vars

(***************************************************************************)
(* The web deployment: every HTTP request and every socket event of every  *)
(* client is served by the one TerminalCore the application constructed.   *)
(***************************************************************************)
Clients == {"client1", "client2"}

\* the command lines the web clients send
WebInputs == {"cd d", "cd ..", "pwd", "mkdir logs", "ls", "frobnicate"}

\* the /api/execute route and the execute_command socket event
HandleCommand(c, command) ==
    /\ ExecuteCommand(command)
    /\ client' = c
    /\ UNCHANGED threads

NextWeb == \E c \in Clients, command \in WebInputs : HandleCommand(c, command)

SpecWeb == Init /\ [][NextWeb]_vars

(***************************************************************************)
(* process on the built-in registry: one call of every built-in command    *)
(* with each of a few argument lists.                                      *)
(***************************************************************************)
BuiltinArguments == {"", " f", " f g", " nodir", " d", " 1", " -x f"}

BuiltinInputs ==
    LET builtin == FullRegistrations \o FallbackRegistrations
    IN  {builtin[k].name \o arguments :
            k \in 1..Len(builtin), arguments \in BuiltinArguments}

InitBuiltins ==
    /\ Construct(TRUE, FALSE, HistorySize, NoFile)
    /\ input = None

ExecuteBuiltin ==
    /\ ncalls = 0
    /\ \E text \in BuiltinInputs : ExecuteCommand(text)
    /\ UNCHANGED <<client, threads>>

NextBuiltins == ExecuteBuiltin

SpecBuiltins == InitBuiltins /\ [][NextBuiltins]_vars

(***************************************************************************)
(* The registry under arbitrary register calls.                            *)
(***************************************************************************)
MaxRegisterCalls == 2       \* register calls after construction

RegisterNames == {"ls", "new", "x"}
RegisterHandlers == {"Plugin", "OtherPlugin"}
RegisterAliases == { <<>>, <<"x">>, <<"ll">>, <<"x", "ll">>, <<"ls">> }

\* the tokens looked up
Tokens == RegisterNames \cup {"ll", "quit", "exit", "help", "cd", "frobnicate", ""}

InitRegistry ==
    /\ \E imports_ok \in BOOLEAN : Construct(imports_ok, FALSE, HistorySize, NoFile)
    /\ input = None

RegisterCall ==
    /\ ncalls < MaxRegisterCalls
    /\ ncalls' = ncalls + 1
    /\ \E name \in RegisterNames, handler \in RegisterHandlers,
          als \in RegisterAliases : Register(name, handler, als)
    /\ UNCHANGED <<nlp_enabled, history, max_history, history_file, context, cwd,
                   dirs, files, result, trace, input, client, threads>>

NextRegistry == RegisterCall

SpecRegistry == InitRegistry /\ [][NextRegistry]_vars

(***************************************************************************)
(* The history manager on its own: every configured size, a persisted file *)
(* from an earlier run, add_command calls and restarts.                    *)
(***************************************************************************)
MaxHistorySize == 2         \* the configured history_size ranges over 0..MaxHistorySize
MaxAdds == 3                \* add_command calls in one behaviour

HistoryCommands == {"a", "b", "", " c ", "d\ne"}
HistoryFiles == {NoFile, FileWith("a\n"), FileWith("a\nb\nc\n")}

InitHistory ==
    /\ \E size \in 0..MaxHistorySize, file \in HistoryFiles :
          Construct(TRUE, FALSE, size, file)
    /\ input = None

AddCommandCall ==
    /\ ncalls < MaxAdds
    /\ ncalls' = ncalls + 1
    /\ \E command \in HistoryCommands :
          /\ AddCommand(command)
          /\ input' = command
    /\ UNCHANGED <<commands, aliases, registrations, nlp_enabled, max_history,
                   context, cwd, dirs, files, result, trace, client, threads>>

\* a new HistoryManager is constructed on the saved file
Restart ==
    /\ history' = LoadHistory(history_file, cwd)
    /\ UNCHANGED <<commands, aliases, registrations, nlp_enabled, max_history,
                   history_file, context, cwd, dirs, files, result, trace, input,
                   ncalls, client, threads>>

NextHistory == AddCommandCall \/ Restart

SpecHistory == InitHistory /\ [][NextHistory]_vars

(***************************************************************************)
(* History recording when the request threads of the web server call       *)
(* execute_command at the same time: add_command runs without a lock, so   *)
(* its statements interleave.                                              *)
(***************************************************************************)
MaxRequests == 3            \* execute_command calls the threads make in all

RequestCommands == {"a", "b"}

\* a thread enters execute_command and add_command builds the entry
BeginAddCommand(t, command) ==
    /\ threads[t].pc = "idle"
    /\ ncalls < MaxRequests
    /\ ncalls' = ncalls + 1
    /\ input' = command
    /\ threads' = [threads EXCEPT ![t] = [pc |-> "append", command |-> command,
                                          sliced |-> <<>>]]
    /\ UNCHANGED <<commands, aliases, registrations, nlp_enabled, history,
                   max_history, history_file, context, cwd, dirs, files, result,
                   trace, client>>

\* self.history.append(entry)
AppendEntry(t) ==
    /\ threads[t].pc = "append"
    /\ history' = Append(history, CommandHistoryEntry(threads[t].command, 0, TRUE,
                                                      PathStr(cwd)))
    /\ threads' = [threads EXCEPT ![t].pc = "trim"]
    /\ UNCHANGED <<commands, aliases, registrations, nlp_enabled, max_history,
                   history_file, context, cwd, dirs, files, result, trace, input,
                   ncalls, client>>

\* if len(self.history) > self.max_history: evaluate self.history[-max_history:]
SliceHistory(t) ==
    /\ threads[t].pc = "trim"
    /\ threads' = IF Len(history) > max_history
                  THEN [threads EXCEPT ![t].pc = "assign",
                                       ![t].sliced = LastSlice(history, max_history)]
                  ELSE [threads EXCEPT ![t].pc = "save"]
    /\ UNCHANGED <<commands, aliases, registrations, nlp_enabled, history,
                   max_history, history_file, context, cwd, dirs, files, result,
                   trace, input, ncalls, client>>

\* self.history = <the slice>
AssignTrimmed(t) ==
    /\ threads[t].pc = "assign"
    /\ history' = threads[t].sliced
    /\ threads' = [threads EXCEPT ![t].pc = "save"]
    /\ UNCHANGED <<commands, aliases, registrations, nlp_enabled, max_history,
                   history_file, context, cwd, dirs, files, result, trace, input,
                   ncalls, client>>

\* self._save_history(), then execute_command appends to context.history
SaveHistory(t) ==
    /\ threads[t].pc = "save"
    /\ history_file' = FileWith(SavedText(history))
    /\ context' = ExecutionContext(context.current_directory,
                                   Append(context.history, threads[t].command))
    /\ threads' = [threads EXCEPT ![t] = Idle]
    /\ UNCHANGED <<commands, aliases, registrations, nlp_enabled, history,
                   max_history, cwd, dirs, files, result, trace, input, ncalls,
                   client>>

\* the list a reader gets from get_history
HistoryView(entries) == [entries |-> entries]

\* HistoryManager.get_history() called from any thread
GetHistory ==
    /\ result' = Returned(HistoryView(history))
    /\ UNCHANGED <<commands, aliases, registrations, nlp_enabled, history,
                   max_history, history_file, context, cwd, dirs, files, trace,
                   input, ncalls, client, threads>>

InitThreads ==
    /\ \E size \in 1..MaxHistorySize : Construct(TRUE, FALSE, size, NoFile)
    /\ input = None

NextThreads ==
    \/ \E t \in Threads, command \in RequestCommands : BeginAddCommand(t, command)
    \/ \E t \in Threads : AppendEntry(t)
    \/ \E t \in Threads : SliceHistory(t)
    \/ \E t \in Threads : AssignTrimmed(t)
    \/ \E t \in Threads : SaveHistory(t)
    \/ GetHistory

SpecThreads == InitThreads /\ [][NextThreads]_vars

(***************************************************************************)
(* _parse_command as a function of its input.                              *)
(***************************************************************************)
MaxParseLen == 4            \* the longest generated input text

ParseAlphabet == {"a", " ", "\t", "\"", "'", "\\"}

RECURSIVE StringsUpTo(_)
StringsUpTo(n) ==
    IF n = 0 THEN {""}
    ELSE LET shorter == StringsUpTo(n - 1)
         IN  shorter \cup {str \o c : str \in shorter, c \in ParseAlphabet}

\* texts a quoted segment can hold
QuotedBodies == {"a b", "a", " ", "", "a  b c", "\ta"}

QuotedInput(quote, body) == "echo " \o quote \o body \o quote \o " c"

ParseInputs ==
    StringsUpTo(MaxParseLen)
    \cup {"echo \"a", "echo 'a b", "echo a\\"}
    \cup {QuotedInput(quote, body) : quote \in ShlexQuotes, body \in QuotedBodies}

InitParse ==
    /\ Construct(TRUE, FALSE, HistorySize, NoFile)
    /\ input \in ParseInputs

ParseCall ==
    /\ ncalls = 0
    /\ ncalls' = 1
    /\ result' = ParseCommand(input)
    /\ UNCHANGED <<commands, aliases, registrations, nlp_enabled, history,
                   max_history, history_file, context, cwd, dirs, files, trace,
                   input, client, threads>>

NextParse == ParseCall

SpecParse == InitParse /\ [][NextParse]_vars

(***************************************************************************)
(* process_natural_language as a function of its input.                    *)
(***************************************************************************)
QueryHeads == {
    "create a new folder called ", "create directory ", "make a folder named ",
    "go to the folder ", "change to directory ", "navigate to ",
    "show me the contents of the file ", "show content of file ",
    "display the file ", "read file ", "copy the file ", "move file ",
    "rename the file ", "delete the file ", "remove file ",
    "show me all the files", "list files", "show me the files in ",
    "show files in ", "list the files in ", "list files in ",
    "find all files named ", "find file ", "search for files called ",
    "search for ", "look for ", "kill the process ", "terminate process ",
    "say ", "print ", "help ", "" }

QueryTails == {"logs", "a to b", "x in the file y", "12"}

FixedQueries == {
    "where am i?", "Where Am I", "what's in this folder",
    "what is in the current directory", "what is my current location?",
    "what's current folder", "show me my current directory",
    "show current location", "show me all running processes", "show processes",
    "list all running processes", "list processes",
    "what processes are running?", "show me system info",
    "show system resources", "help", "help me", "what can i do?",
    "what can you do", "show me available commands", "show commands",
    "asdkjhasd", "  create a new folder called logs  ",
    "show all files in the current folder", "list all the files in directory",
    "copy the file a\\2b to x", "copy the file  a  to b" }

NlpQueries == {head \o tail : head \in QueryHeads, tail \in QueryTails}
              \cup FixedQueries

InitNlp ==
    /\ Construct(TRUE, TRUE, HistorySize, NoFile)
    /\ input \in NlpQueries

TranslateCall ==
    /\ ncalls = 0
    /\ ncalls' = 1
    /\ result' = Returned(ProcessNaturalLanguage(input))
    /\ UNCHANGED <<commands, aliases, registrations, nlp_enabled, history,
                   max_history, history_file, context, cwd, dirs, files, trace,
                   input, client, threads>>

NextNlp == TranslateCall

SpecNlp == InitNlp /\ [][NextNlp]_vars

(***************************************************************************)
(* Properties.                                                             *)
(***************************************************************************)
Present(message) == message # None /\ message # ""

\* the tokens of the text the last call dispatched
DispatchedParts(tr) == ParseCommand(tr.dispatched).value

Unregistered(token) == token \notin DOMAIN aliases /\ token \notin DOMAIN commands

\* process ran in this step (add_command did not fault before it)
ProcessStep == ncalls' = ncalls + 1 /\ trace'.dispatched # None

\* the step left the working directories and the filesystem alone
ContextUnchanged ==
    /\ context'.current_directory = context.current_directory
    /\ cwd' = cwd
    /\ dirs' = dirs
    /\ files' = files

\* C1: every execute_command call hands a CommandResult back to its caller,
\* whatever the input and the handler: nothing raised inside it (an
\* interpreter exit included) leaves it, and a fault inside history
\* recording yields success = false with exit code 1.
C1_AlwaysReturnsResult ==
    ncalls > 0 =>
        /\ ~result.raised
        /\ (trace.dispatched = None =>
                ~result.value.success /\ result.value.exit_code = 1)

\* C2: when the first token of the dispatched (possibly translated) text is
\* neither a registered alias nor a registered name, the call returns
\* success = false, exit code 127 and a non-empty error message, no
\* validate_args or execute is invoked, and the working directory and the
\* filesystem are unchanged.
C2_UnknownCommandNotFound ==
    [][(/\ ProcessStep
        /\ DispatchedParts(trace') # <<>>
        /\ Unregistered(DispatchedParts(trace')[1]))
       => /\ ~result'.raised
          /\ ~result'.value.success
          /\ result'.value.exit_code = 127
          /\ Present(result'.value.error_message)
          /\ trace'.lookups = <<DispatchedParts(trace')[1]>>
          /\ trace'.validated = <<>>
          /\ trace'.executed = <<>>
          /\ ContextUnchanged]_vars

C2_Witness ==
    /\ ncalls > 0
    /\ input = "frobnicate"
    /\ ~result.raised
    /\ result.value.exit_code = 127
    /\ trace.lookups = <<"frobnicate">>

\* C3: after any sequence of register calls, for every registration made
\* and every alias in its alias list, get_handler(name) and
\* get_handler(alias) return the same handler.
C3_AliasResolvesLikeName ==
    \A k \in 1..Len(registrations) :
        \A alias \in Range(registrations[k].aliases) :
            GetHandler(alias) = GetHandler(registrations[k].name)

\* C4: in every registry state and for every token, command_exists(token)
\* is true exactly when get_handler(token) returns a handler; for a token
\* that is neither an alias nor a name get_handler raises
\* CommandNotFoundError and command_exists is false.
C4_ExistsIffResolves ==
    \A token \in Tokens :
        /\ CommandExists(token) \in BOOLEAN
        /\ CommandExists(token) <=> ~GetHandler(token).raised
        /\ Unregistered(token) =>
              /\ GetHandler(token) = Raised("CommandNotFoundError")
              /\ ~CommandExists(token)

C4_Witness ==
    /\ ncalls > 0
    /\ "ll" \in DOMAIN aliases
    /\ "ll" \notin DOMAIN commands
    /\ CommandExists("ll")
    /\ Unregistered("frobnicate")
    /\ GetHandler("frobnicate").raised

C6_HistoryCapped == Len(history) <= max_history

\* C7: every CommandResult execute_command returns has an absent or empty
\* error_message when success is true and a non-empty error_message when
\* success is false.
C7_ErrorMessageIffFailure ==
    (ncalls > 0 /\ ~result.raised) =>
        /\ result.value.success => ~Present(result.value.error_message)
        /\ ~result.value.success => Present(result.value.error_message)

C7_Witness ==
    /\ ncalls > 0
    /\ input = "ls nodir"
    /\ ~result.raised
    /\ ~result.value.success
    /\ Present(result.value.error_message)
    /\ trace.executed = <<Call("ListCommand", <<"nodir">>)>>

\* C8: every CommandResult execute_command returns has exit code 0 exactly
\* when success is true; a command-not-found result carries 127 and every
\* other failure carries 1.
C8_ExitCodeMatchesSuccess ==
    (ncalls > 0 /\ ~result.raised) =>
        /\ result.value.success <=> result.value.exit_code = 0
        /\ ~result.value.success =>
              result.value.exit_code =
                  (IF trace.lookups # <<>> /\ trace.validated = <<>> THEN 127 ELSE 1)

\* the characters of text that are not whitespace, in order
RECURSIVE WithoutWhitespace(_)
WithoutWhitespace(text) ==
    IF text = "" THEN ""
    ELSE (IF CharAt(text, 1) \in PyWhitespace THEN "" ELSE CharAt(text, 1))
         \o WithoutWhitespace(Tail(text))

RECURSIVE Concat(_)
Concat(tokens) == IF tokens = <<>> THEN "" ELSE tokens[1] \o Concat(Tail(tokens))

\* C9: _parse_command never raises; a quoted segment is one token
\* (echo "a b" c gives echo, a b, c); with unbalanced or malformed quoting
\* the result is the plain whitespace split of the trimmed text, non-empty
\* whenever the trimmed text is non-empty.
C9_ParseNeverRaises ==
    ncalls = 1 =>
        /\ ~result.raised
        /\ \A quote \in ShlexQuotes, body \in QuotedBodies :
              input = QuotedInput(quote, body) => result.value = <<"echo", body, "c">>
        /\ ShlexSplit(Strip(input)).raised =>
              /\ result.value = Split(Strip(input))
              /\ Concat(result.value) = WithoutWhitespace(input)
              /\ \A k \in 1..Len(result.value) :
                    /\ result.value[k] # ""
                    /\ \A c \in PyWhitespace : ~Contains(result.value[k], c)
              /\ Strip(input) # "" => result.value # <<>>

C9_Witness ==
    /\ ncalls = 1
    /\ input = "echo \"a"
    /\ ShlexSplit(Strip(input)).raised
    /\ result = Returned(<<"echo", "\"a">>)

\* the index of the first rule whose pattern matches the query, 0 if none
RECURSIVE FirstMatching(_, _)
FirstMatching(query, i) ==
    IF i > Len(patterns) THEN 0
    ELSE IF ReMatch(patterns[i].pattern, Lower(Strip(query))).ok THEN i
    ELSE FirstMatching(query, i + 1)

FirstMatchOf == [query \in NlpQueries |-> FirstMatching(query, 1)]

\* the rules whose pattern matches the query
MatchingRulesOf ==
    [query \in NlpQueries |->
        {i \in 1..Len(patterns) : ReMatch(patterns[i].pattern, Lower(Strip(query))).ok}]

\* C10: process_natural_language returns the populated template of the
\* lowest-index rule that matches the trimmed, lower-cased input;
\* 'create a new folder called logs' gives 'mkdir logs', 'where am i?'
\* gives 'pwd'; and every rule of the catalogue is the first match of some
\* input.
C10_FirstMatchAndNoDeadRule ==
    /\ ncalls = 1 =>
          /\ MatchingRulesOf[input] = {} => result.value = None
          /\ MatchingRulesOf[input] # {} =>
                LET first == CHOOSE i \in MatchingRulesOf[input] :
                                 \A j \in MatchingRulesOf[input] : i <= j
                    m == ReMatch(patterns[first].pattern, Lower(Strip(input)))
                IN  result.value = SubstituteGroups(patterns[first].template, m.groups, 1)
          /\ input = "  create a new folder called logs  " => result.value = "mkdir logs"
          /\ input = "where am i?" => result.value = "pwd"
    /\ \A i \in 1..Len(patterns) : \E query \in NlpQueries : FirstMatchOf[query] = i

\* the part of C10 that the catalogue satisfies: the lowest-index matching
\* rule decides the result
C10_FirstMatchWins ==
    ncalls = 1 =>
        /\ MatchingRulesOf[input] = {} => result.value = None
        /\ MatchingRulesOf[input] # {} =>
              LET first == CHOOSE i \in MatchingRulesOf[input] :
                               \A j \in MatchingRulesOf[input] : i <= j
                  m == ReMatch(patterns[first].pattern, Lower(Strip(input)))
              IN  result.value = SubstituteGroups(patterns[first].template, m.groups, 1)

\* every rule of the catalogue matches some query of the model
EveryRuleMatchesSomeQuery ==
    \A i \in 1..Len(patterns) : \E query \in NlpQueries : i \in MatchingRulesOf[query]

\* the previous call returned a success result
PreviousSucceeded == ncalls > 0 /\ ~result.raised /\ result.value.success

\* C11: within one session a call observes the effects of the call before
\* it: after a successful 'mkdir logs' a following 'ls' lists 'logs/'; after
\* a successful 'cd d' a following 'pwd' prints the resolved path of d, and
\* the relative paths of a following 'ls', 'mkdir logs' or 'ls nodir' are
\* resolved against d.
C11_CallsObserveEarlierEffects ==
    [][(ProcessStep /\ PreviousSucceeded)
       => /\ (input = "mkdir logs" /\ input' = "ls") =>
                /\ ~result'.raised /\ result'.value.success
                /\ Contains(result'.value.output, "logs/")
          /\ (input = "cd d" /\ input' = "pwd") =>
                /\ ~result'.raised /\ result'.value.success
                /\ result'.value.output = PathStr(Resolve(StartDir \o <<"d">>))
          /\ (input = "cd d" /\ input' = "ls") =>
                /\ ~result'.raised /\ result'.value.success
                /\ result'.value.output = ""
          /\ (input = "cd d" /\ input' = "mkdir logs") =>
                /\ StartDir \o <<"d", "logs">> \notin dirs
                /\ dirs' = dirs \cup {StartDir \o <<"d", "logs">>}
          /\ (input = "cd d" /\ input' = "ls nodir") =>
                Contains(result'.value.error_message,
                         "'" \o PathStr(StartDir \o <<"d", "nodir">>) \o "'")
          /\ (input = "cd d" /\ input' = "cd ..") =>
                context'.current_directory = StartDir /\ cwd' = StartDir]_vars

C11_Witness ==
    /\ ncalls = 2
    /\ context.history = <<"cd d", "pwd">>
    /\ ~result.raised
    /\ result.value.output = "/w/d"
    /\ context.current_directory = <<"w", "d">>

C11_WitnessListing ==
    /\ ncalls = 2
    /\ context.history = <<"mkdir logs", "ls">>
    /\ ~result.raised
    /\ result.value.output = "d/  f  logs/"

\* C12: when validate_args of the resolved handler returns false, process
\* returns success = false with exit code 1 and an invalid-arguments
\* message, execute is not invoked and the context is unchanged; execute is
\* invoked at most once per call, and only on the handler the registry
\* resolved and after its validate_args returned true.
C12_ValidationGuardsExecute ==
    [][ProcessStep
       => /\ Len(trace'.lookups) <= 1
          /\ Len(trace'.validated) <= 1
          /\ Len(trace'.executed) <= 1
          /\ trace'.validated # <<>> =>
                /\ trace'.lookups # <<>>
                /\ GetHandler(trace'.lookups[1]) = Returned(trace'.validated[1].handler)
          /\ trace'.executed # <<>> =>
                /\ trace'.validated = trace'.executed
                /\ ValidateArgs(trace'.executed[1].handler, trace'.executed[1].args)
                       = Returned(TRUE)
          /\ (/\ trace'.validated # <<>>
              /\ ValidateArgs(trace'.validated[1].handler, trace'.validated[1].args)
                     = Returned(FALSE))
             => /\ ~result'.raised
                /\ ~result'.value.success
                /\ result'.value.exit_code = 1
                /\ StartsWith(result'.value.error_message,
                              "Invalid arguments for '" \o trace'.lookups[1] \o "'")
                /\ trace'.executed = <<>>
                /\ ContextUnchanged]_vars

C12_Witness ==
    /\ ncalls > 0
    /\ input = "plug bad"
    /\ trace.validated = <<Call("Plugin", <<"bad">>)>>
    /\ trace.executed = <<>>
    /\ ~result.raised
    /\ result.value.exit_code = 1

\* the message of the fault the handler call raises, None if it returns
RaisedMessage(call) ==
    LET v == ValidateArgs(call.handler, call.args)
        effects == Execute(call.handler, call.args)
    IN  IF v.raised THEN v.value
        ELSE IF ~v.value THEN None
        ELSE IF \E e \in effects : e.kind = "return" THEN None
        ELSE IF \E e \in effects : e.kind = "exit" THEN "0"
        ELSE (CHOOSE e \in effects : TRUE).result.error_message

\* C13: when validate_args or execute of the resolved handler raises
\* instead of returning, process returns success = false with exit code 1
\* and an error message that contains the fault's message; nothing leaves
\* process as a raised fault.
C13_HandlerFaultsAreCaught ==
    [][(ProcessStep /\ trace'.validated # <<>>
        /\ RaisedMessage(trace'.validated[1]) # None)
       => /\ ~result'.raised
          /\ ~result'.value.success
          /\ result'.value.exit_code = 1
          /\ Contains(result'.value.error_message,
                      RaisedMessage(trace'.validated[1]))]_vars

\* the part of C13 that holds: a fault derived from Exception is caught
C13_ExceptionsAreCaught ==
    [][(ProcessStep /\ trace'.validated # <<>>
        /\ RaisedMessage(trace'.validated[1]) # None
        /\ trace'.validated[1].handler # "FallbackExitCommand")
       => /\ result' = Returned(CaughtError(RaisedMessage(trace'.validated[1]),
                                            trace'.t_nlp + trace'.t_rest))
          /\ ContextUnchanged]_vars

\* C14: every execute_command(text) call appends text, once and unmodified,
\* to ExecutionContext.history and to HistoryManager.history (then trimmed
\* to the cap), whatever the outcome of the call.
C14_EveryCallIsRecorded ==
    [][ncalls' = ncalls + 1
       => /\ context'.history = Append(context.history, input')
          /\ history' # <<>>
          /\ history'[Len(history')].command = input'
          /\ history' = AppendTrimmed(history,
                                      CommandHistoryEntry(input', 0, TRUE, PathStr(cwd)),
                                      max_history)]_vars

\* the part of C14 that holds: a call whose history recording did not fault
\* is recorded in both histories before it is dispatched, whatever its result
C14_RecordedUnlessRecordingFaults ==
    [][(ncalls' = ncalls + 1 /\ cwd \in dirs)
       => /\ context'.history = Append(context.history, input')
          /\ history' = AppendTrimmed(history,
                                      CommandHistoryEntry(input', 0, TRUE, PathStr(cwd)),
                                      max_history)
          /\ history'[Len(history')].command = input']_vars

\* C15: in the web deployment a command issued by one client never changes
\* the working directory, the history or the results observed by another
\* client: a request of client c leaves the directory, the history and the
\* filesystem view that the previous request (of another client) left behind.
C15_ClientsAreIsolated ==
    [][(ncalls' = ncalls + 1 /\ client # None /\ client' # client)
       => /\ context'.current_directory = context.current_directory
          /\ context'.history = context.history
          /\ history' = history
          /\ cwd' = cwd]_vars

\* the register calls made so far that list the token as an alias / as name
AliasCalls(token) ==
    {k \in 1..Len(registrations) : token \in Range(registrations[k].aliases)}

NameCalls(token) == {k \in 1..Len(registrations) : registrations[k].name = token}

Latest(calls) == CHOOSE k \in calls : \A j \in calls : j <= k

\* the handler given by the latest register call for the name
LatestHandler(name) == registrations[Latest(NameCalls(name))].handler

\* C16: get_handler resolves a token as an alias first and only otherwise
\* as a primary name: a token that some register call listed as an alias
\* resolves to the handler of the command that (most recently) took it as
\* alias, also when the token is a registered primary name itself; a token
\* that is only a primary name resolves to that name's handler.
C16_AliasBeforeName ==
    \A token \in Tokens :
        /\ AliasCalls(token) # {} =>
              GetHandler(token) =
                  Returned(LatestHandler(registrations[Latest(AliasCalls(token))].name))
        /\ (AliasCalls(token) = {} /\ NameCalls(token) # {}) =>
              GetHandler(token) = Returned(LatestHandler(token))

C16_Witness ==
    /\ "x" \in DOMAIN aliases
    /\ "x" \in DOMAIN commands
    /\ aliases["x"] = "new"
    /\ commands["x"] # commands["new"]
    /\ GetHandler("x") = Returned(commands["new"])

\* the register call this step made
LastRegistration == registrations'[Len(registrations')]

\* this step registered a name that was registered before
ReRegisterStep ==
    /\ registrations' # registrations
    /\ LastRegistration.name \in DOMAIN commands

Occurrences(seq, x) == Cardinality({k \in 1..Len(seq) : seq[k] = x})

C17_WitnessShadowed ==
    /\ ncalls = 2
    /\ registrations[Len(registrations)].name = "ls"
    /\ commands["ls"] = "OtherPlugin"
    /\ "ls" \in DOMAIN aliases
    /\ GetHandler("ls") = Returned("Plugin")

\* the prefixes completion is asked for
Prefixes == {"", "l", "L", "n", "x", "ls", "c", "q", "e", "new"}

\* the pairs of known names in code point order, evaluated once
CodePointBefore ==
    LET known == {SortedKnownNames[k] : k \in 1..Len(SortedKnownNames)}
    IN  {pair \in known \X known : StrLess(pair[1], pair[2])}

\* C18: suggest_commands(p) returns exactly the registered primary names
\* that start with p, case-sensitively, in strictly increasing code point
\* order (so without duplicates), never an alias that is not a name, and
\* for the empty prefix it equals list_commands().
C18_SuggestionsArePrefixedNames ==
    \A p \in Prefixes :
        LET s == SuggestCommands(p)
        IN  /\ {s[k] : k \in 1..Len(s)} = {n \in DOMAIN commands : StartsWith(n, p)}
            /\ \A k \in 1..(Len(s) - 1) : <<s[k], s[k + 1]>> \in CodePointBefore
            /\ \A k \in 1..Len(s) : s[k] \in DOMAIN aliases => s[k] \in DOMAIN commands
            /\ p = "" => s = ListCommands

C18_Witness ==
    /\ "ll" \in DOMAIN aliases
    /\ "quit" \in DOMAIN aliases
    /\ "new" \in DOMAIN commands
    /\ SuggestCommands("l") = <<"ls">>
    /\ SuggestCommands("L") = <<>>
    /\ SuggestCommands("q") = <<>>
    /\ SuggestCommands("n") = <<"new">>
    /\ Len(SuggestCommands("")) > 3

\* C19: the elapsed time attached to a result by process covers only
\* tokenize, resolve, validate and execute: the time the NLP gate and the
\* translation took is never part of execution_time.
C19_ElapsedExcludesNlp ==
    (ncalls > 0 /\ trace.dispatched # None /\ ~result.raised) =>
        result.value.execution_time = trace.t_rest

\* what the timer of process measures: the NLP step and everything after it
C19_ElapsedSinceEntry ==
    (ncalls > 0 /\ trace.dispatched # None /\ ~result.raised) =>
        result.value.execution_time = trace.t_nlp + trace.t_rest

\* C20: when the NLP translation of the entered text succeeds, the text
\* that is tokenized, resolved and executed is the translation, while the
\* entry appended to HistoryManager.history and to ExecutionContext.history
\* is the text as entered, never the translation.
C20_TranslatedDispatchRawHistory ==
    [][(/\ ProcessStep
        /\ nlp_enabled
        /\ GateOf[input']
        /\ Present(TranslationOf[input']))
       => LET translation == TranslationOf[input']
              parts == ParseCommand(translation).value
          IN  /\ translation # input'
              /\ trace'.dispatched = translation
              /\ trace'.lookups = <<parts[1]>>
              /\ ~GetHandler(parts[1]).raised =>
                    /\ trace'.validated = <<Call(GetHandler(parts[1]).value, Tail(parts))>>
                    /\ trace'.executed = trace'.validated
              /\ history'[Len(history')].command = input'
              /\ context'.history = Append(context.history, input')]_vars

C20_Witness ==
    /\ ncalls > 0
    /\ nlp_enabled
    /\ input = "create a new folder called logs"
    /\ trace.dispatched = "mkdir logs"
    /\ trace.executed = <<Call("MakeDirectoryCommand", <<"logs">>)>>
    /\ <<"w", "logs">> \in dirs
    /\ history[Len(history)].command = "create a new folder called logs"
    /\ context.history[Len(context.history)] = "create a new folder called logs"

\* C21: the text process tokenizes and dispatches is the input unmodified
\* whenever NLP is disabled, or is_natural_language(input) is false, or no
\* translation rule matches; the translator is consulted only when NLP is
\* enabled and the gate returned true, and the gate only when NLP is enabled.
C21_UntranslatedInputIsDispatchedAsIs ==
    [][ProcessStep
       => /\ (\/ ~nlp_enabled
              \/ ~GateOf[input']
              \/ TranslationOf[input'] = None) => trace'.dispatched = input'
          /\ trace'.gate = nlp_enabled
          /\ trace'.translated = (nlp_enabled /\ GateOf[input'])]_vars

\* a sentence a rule would translate, which the gate turns away
C21_Witness ==
    /\ ncalls > 0
    /\ nlp_enabled
    /\ input = "list files"
    /\ TranslationOf[input] = "ls"
    /\ ~trace.translated
    /\ trace.dispatched = "list files"
    /\ trace.lookups = <<"list">>
    /\ result.value.exit_code = 127

\* a command line the gate lets through, which no rule matches
C21_WitnessNoRule ==
    /\ ncalls > 0
    /\ nlp_enabled
    /\ input = "find . -name a"
    /\ trace.translated
    /\ trace.dispatched = "find . -name a"
    /\ trace.executed = <<Call("FindCommand", <<".", "-name", "a">>)>>

\* C22: false positives of the natural-language gate are harmless: for
\* every input that is a literal command line whose first token is a
\* registered name or alias, process with NLP enabled dispatches the same
\* handler with the same argument list as process with NLP disabled, that
\* is, the handler and the arguments the input's own tokens name.
C22_GateFalsePositivesAreHarmless ==
    [][(/\ ProcessStep
        /\ ParseCommand(input').value # <<>>
        /\ CommandExists(ParseCommand(input').value[1]))
       => LET parts == ParseCommand(input').value
          IN  /\ trace'.lookups = <<parts[1]>>
              /\ trace'.validated = <<Call(GetHandler(parts[1]).value, Tail(parts))>>]_vars

\* what does hold: a command line that passes the gate and that no rule
\* matches is dispatched as with NLP disabled
C22_UnmatchedFalsePositivesAreHarmless ==
    [][(/\ ProcessStep
        /\ ParseCommand(input').value # <<>>
        /\ CommandExists(ParseCommand(input').value[1])
        /\ ~(nlp_enabled /\ GateOf[input'] /\ Present(TranslationOf[input'])))
       => LET parts == ParseCommand(input').value
          IN  /\ trace'.lookups = <<parts[1]>>
              /\ trace'.validated = <<Call(GetHandler(parts[1]).value, Tail(parts))>>]_vars

\* the template with every placeholder \i replaced, in one pass from left
\* to right, by the trimmed text of group i
RECURSIVE Instantiate(_, _)
Instantiate(template, groups) ==
    IF template = "" THEN ""
    ELSE IF /\ Len(template) >= 2
            /\ CharAt(template, 1) = "\\"
            /\ \E i \in 1..Len(groups) : CharAt(template, 2) = DigitChars[i]
         THEN LET i == CHOOSE i \in 1..Len(groups) : CharAt(template, 2) = DigitChars[i]
              IN  Strip(groups[i]) \o Instantiate(SubSeq(template, 3, Len(template)), groups)
         ELSE CharAt(template, 1) \o Instantiate(Tail(template), groups)

\* the capture groups of the first rule that matches the query
GroupsOf ==
    [query \in NlpQueries |->
        IF FirstMatchOf[query] = 0 THEN <<>>
        ELSE ReMatch(patterns[FirstMatchOf[query]].pattern, Lower(Strip(query))).groups]

\* C23: for a matching rule the translated command is the template with
\* each placeholder \i replaced by the trimmed text of capture group i and
\* nothing else changed; the text of group 1 appears verbatim in the output,
\* also when it contains a backslash followed by a digit.
C23_GroupsSubstitutedVerbatim ==
    (ncalls = 1 /\ FirstMatchOf[input] # 0) =>
        /\ result.value = Instantiate(patterns[FirstMatchOf[input]].template,
                                      GroupsOf[input])
        /\ GroupsOf[input] # <<>> => Contains(result.value, Strip(GroupsOf[input][1]))

\* what does hold: captures without a backslash are substituted verbatim
C23_PlainGroupsSubstitutedVerbatim ==
    (ncalls = 1 /\ FirstMatchOf[input] # 0 /\ ~Contains(input, "\\")) =>
        /\ result.value = Instantiate(patterns[FirstMatchOf[input]].template,
                                      GroupsOf[input])
        /\ GroupsOf[input] # <<>> => Contains(result.value, Strip(GroupsOf[input][1]))

\* the gate as described: an interrogative word at the start, one of the
\* phrases anywhere, or a space together with a function word that stands
\* as a word of the text
GateAsDescribed(text) ==
    LET t == Lower(Strip(text))
        words == Split(t)
        letter(c) == \E k \in 1..Len(LowerChars) : CharAt(LowerChars, k) = c
    IN  \/ \E k \in 1..Len(QuestionWords) :
              /\ StartsWith(t, QuestionWords[k])
              /\ ~letter(CharAt(t, Len(QuestionWords[k]) + 1))
        \/ \E k \in 1..Len(NlPhrases) : Contains(t, NlPhrases[k])
        \/ /\ Contains(t, " ")
           /\ \E k \in 1..Len(CommonWords), j \in 1..Len(words) : words[j] = CommonWords[k]

GateAsDescribedOf == [text \in CommandInputs |-> GateAsDescribed(text)]

\* C24: is_natural_language(text) is true exactly when the trimmed,
\* lower-cased text starts with an interrogative word, or contains one of
\* the phrases, or contains a space and one of the function words
\* the/a/an/to/in/of as a word; it is false for every other input, such as
\* 'ls docs' or 'whoami'.
C24_GateIsWordBased ==
    (ncalls > 0 /\ trace.dispatched # None /\ nlp_enabled) =>
        /\ trace.translated = GateAsDescribedOf[input]
        /\ input = "whoami" => ~trace.translated

\* what does hold: every text the description lets through passes the gate
C24_GateCoversDescription ==
    (ncalls > 0 /\ trace.dispatched # None /\ nlp_enabled) =>
        (GateAsDescribedOf[input] => trace.translated)

\* a reader has looked at the history
Observed == "entries" \in DOMAIN result.value

\* C25: when two execute_command calls on the same TerminalCore interleave,
\* history recording stays atomic: a step changes the history only by
\* appending one entry or by dropping the oldest entries down to
\* history_size, so no recorded command is lost and the entries keep the
\* order of the appends, and no reader of get_history observes more than
\* history_size entries.
C25_HistoryRecordingIsAtomic ==
    [][/\ \/ history' = history
          \/ /\ Len(history') = Len(history) + 1
             /\ SubSeq(history', 1, Len(history)) = history
          \/ history' = LastSlice(history, max_history)
       /\ Observed' => Len(result'.value.entries) <= max_history]_vars

\* C26: after any sequence of register calls every name list_commands
\* returns resolves through get_handler to the handler most recently
\* registered under that name, and every alias of the alias map points to a
\* registered primary name; no handler becomes unreachable by its own name
\* because another command registered that name as an alias.
C26_NamesResolveToTheirHandler ==
    /\ \A k \in 1..Len(ListCommands) :
          /\ NameCalls(ListCommands[k]) # {}
          /\ GetHandler(ListCommands[k]) = Returned(LatestHandler(ListCommands[k]))
    /\ \A alias \in DOMAIN aliases : aliases[alias] \in DOMAIN commands

\* what does hold: the names no alias shadows resolve to their latest
\* handler, and every alias points to a registered name
C26_UnshadowedNamesResolve ==
    /\ \A k \in 1..Len(ListCommands) :
          /\ NameCalls(ListCommands[k]) # {}
          /\ commands[ListCommands[k]] = LatestHandler(ListCommands[k])
          /\ ListCommands[k] \notin DOMAIN aliases =>
                GetHandler(ListCommands[k]) = Returned(LatestHandler(ListCommands[k]))
    /\ \A alias \in DOMAIN aliases : aliases[alias] \in DOMAIN commands

\* the history entry the call of this step recorded
RecordedEntry == history'[Len(history')]

\* C27: the history entry recorded for an invocation describes that
\* invocation: its success flag is the success of the CommandResult
\* returned for the same text, its elapsed time is that result's elapsed
\* time, and its working directory is the session's current directory at
\* the time of invocation.
C27_EntryDescribesInvocation ==
    [][(ProcessStep /\ ~result'.raised)
       => /\ RecordedEntry.command = input'
          /\ RecordedEntry.success = result'.value.success
          /\ RecordedEntry.execution_time = result'.value.execution_time
          /\ RecordedEntry.working_directory = PathStr(context.current_directory)]_vars

\* what does hold: the entry carries the text, the directory at invocation
\* and the defaults of add_command
C27_EntryCarriesDefaults ==
    [][ProcessStep
       => /\ RecordedEntry.command = input'
          /\ RecordedEntry.success
          /\ RecordedEntry.execution_time = 0
          /\ RecordedEntry.working_directory = PathStr(context.current_directory)]_vars

\* the handler the call of this step executed, None if it executed none
ExecutedHandler ==
    IF trace'.executed = <<>> THEN None ELSE trace'.executed[1].handler

\* C28: ExecutionContext.current_directory is always an existing directory
\* equal to the process working directory: a successful cd updates both
\* together to the resolved target, a failed cd leaves both unchanged, and
\* no command other than cd changes current_directory.
C28_CurrentDirectoryIsWorkingDirectory ==
    [][ProcessStep
       => /\ context'.current_directory \in dirs'
          /\ context'.current_directory = cwd'
          /\ (ExecutedHandler = "ChangeDirectoryCommand" /\ ~result'.value.success) =>
                (context'.current_directory = context.current_directory /\ cwd' = cwd)
          /\ ExecutedHandler # "ChangeDirectoryCommand" =>
                context'.current_directory = context.current_directory]_vars

\* what does hold: cd moves both together or neither, and no other command
\* assigns current_directory
C28_OnlyCdAssignsCurrentDirectory ==
    [][ProcessStep
       => /\ (ExecutedHandler = "ChangeDirectoryCommand" /\ result'.value.success) =>
                (context'.current_directory \in dirs' /\ cwd' = context'.current_directory)
          /\ (ExecutedHandler = "ChangeDirectoryCommand" /\ ~result'.value.success) =>
                (context'.current_directory = context.current_directory /\ cwd' = cwd)
          /\ ExecutedHandler # "ChangeDirectoryCommand" =>
                context'.current_directory = context.current_directory]_vars

\* the command strings of a history, oldest first
CommandsOf(hist) == [k \in 1..Len(hist) |-> hist[k].command]

\* a command text that is one non-empty line without surrounding whitespace
PlainLine(command) ==
    /\ command # ""
    /\ Strip(command) = command
    /\ ~Contains(command, "\n")
    /\ ~Contains(command, "\r")

\* C29: history persistence round-trips: after any sequence of add_command
\* calls a new HistoryManager constructed on the saved file holds the same
\* sequence of command strings, oldest first, as the history held in memory,
\* also for empty, whitespace-padded and multi-line command text.
C29_HistoryRoundTrips ==
    ncalls > 0 => CommandsOf(LoadHistory(history_file, cwd)) = CommandsOf(history)

\* what does hold: a history of plain one-line commands round-trips
C29_PlainHistoryRoundTrips ==
    (ncalls > 0 /\ \A k \in 1..Len(history) : PlainLine(history[k].command)) =>
        CommandsOf(LoadHistory(history_file, cwd)) = CommandsOf(history)

\* the built-in commands that need operands, with the least number they take
OperandsNeeded ==
    [mkdir |-> 1, rm |-> 1, cat |-> 1, wc |-> 1, kill |-> 1, cp |-> 2, mv |-> 2,
     grep |-> 2]

\* C30: with the built-in registry the invalid-arguments outcome of process
\* is unreachable: validation passes for every built-in command and every
\* argument list and execute is invoked; the missing-operand errors of
\* mkdir, rm, cat, wc, cp, mv, grep and kill come from the handler's execute,
\* which reports them before it changes anything.
C30_BuiltinsAlwaysValidate ==
    [][(ProcessStep /\ trace'.validated # <<>> /\ trace'.validated[1].handler # "Plugin")
       => /\ trace'.executed = trace'.validated
          /\ ~result'.raised =>
                ~StartsWith(result'.value.error_message, "Invalid arguments for")
          /\ \A name \in DOMAIN OperandsNeeded :
                (/\ trace'.lookups = <<name>>
                 /\ Len(trace'.executed[1].args) < OperandsNeeded[name])
                => /\ ~result'.raised
                   /\ ~result'.value.success
                   /\ StartsWith(result'.value.error_message, name \o ": ")
                   /\ ContextUnchanged]_vars

C30_Witness ==
    /\ ncalls > 0
    /\ "plug" \notin DOMAIN commands
    /\ input = "cp f"
    /\ trace.validated = <<Call("CopyCommand", <<"f">>)>>
    /\ trace.executed = <<Call("CopyCommand", <<"f">>)>>
    /\ ~result.raised
    /\ ~result.value.success
    /\ result.value.error_message = "cp: missing file operand"

====
